---- MODULE Spec2Model ----
(***************************************************************************)
(* A model of the toxiproxy control-plane client of src/src/main.rs: the   *)
(* shared HttpClient behind Arc<Mutex<..>>, the Toxiproxy registry, the    *)
(* Proxy handles and the scoped apply, run by a few concurrent callers     *)
(* against one toxiproxy service.                                         *)
(***************************************************************************)
EXTENDS Integers, Sequences, FiniteSets, TLC

\* ------------------------------------------------------------------ bounds
\* calls a sequential caller starts (Spec) / concurrent callers start (SpecConc)
MaxCalls == 3
MaxConcCalls == 2
\* proxies in one populate request
MaxPopulate == 1
\* registry calls one scenario makes
MaxScenarioCalls == 1

\* ------------------------------------------------------------ small inputs
Threads == {"t1", "t2"}
Names == {"socket", "db"}
Listens == {"localhost:2001"}
Upstreams == {"localhost:2000", "localhost:3000"}
Streams == {"downstream", "upstream"}
Latencies == {1000, 2000}
Jitters == {0}
\* toxicity in tenths: 10 stands for 1.0
Toxicities == {10}

VARIABLES
    server,     \* the service: proxy name -> [listen, upstream, enabled, toxics]
    up,         \* whether the service is reachable at the configured endpoint
    lock,       \* holder of the Mutex around the HttpClient, or "free"
    poisoned,   \* whether a holder panicked with the Mutex held
    pc,         \* per caller: "idle", "waiting", "inflight", "scenario"
    cur,        \* per caller: the operation being run
    outer,      \* per caller: the apply whose scenario is running, if any
    ret,        \* per caller: the value (or panic) the last operation ended with
    held,       \* per caller: the Proxy value the caller kept, if any
    sent,       \* per caller: the requests its latest operation has sent
    calls       \* operations the callers may still start

vars == <<server, up, lock, poisoned, pc, cur, outer, ret, held, sent, calls>>

\* -------------------------------------------------------------- Toxic, Proxy
\* a constructor that names the toxic after its type alone
Toxic_new_type_only(type, stream, toxicity, attributes) ==
    [type |-> type, stream |-> stream, toxicity |-> toxicity,
     attributes |-> attributes, name |-> type,
     client |-> "None", proxy_name |-> "None"]

\* Toxic::new: the name is "<type>_<stream>", no client, no proxy name
Toxic_new(type, stream, toxicity, attributes) ==
    [type |-> type, stream |-> stream, toxicity |-> toxicity,
     attributes |-> attributes, name |-> type \o "_" \o stream,
     client |-> "None", proxy_name |-> "None"]

\* Proxy::new: enabled, no toxics, no client
Proxy_new(name, listen, upstream) ==
    [name |-> name, client |-> "None", listen |-> listen, upstream |-> upstream,
     enabled |-> TRUE, toxics |-> <<>>]

\* Proxy::with_client
Proxy_with_client(proxy) == [proxy EXCEPT !.client = "Some"]

\* serde: the fields marked #[serde(skip)] are left out when serializing and
\* take their default (None) when deserializing
ToxicToJson(t) ==
    [type |-> t.type, stream |-> t.stream, toxicity |-> t.toxicity,
     attributes |-> t.attributes, name |-> t.name]

ToxicFromJson(j) ==
    [type |-> j.type, stream |-> j.stream, toxicity |-> j.toxicity,
     attributes |-> j.attributes, name |-> j.name,
     client |-> "None", proxy_name |-> "None"]

\* a serializer that writes listen and upstream under each other's key
ProxyToJsonSwapped(p) ==
    [name |-> p.name, listen |-> p.upstream, upstream |-> p.listen,
     enabled |-> p.enabled,
     toxics |-> [i \in 1..Len(p.toxics) |-> ToxicToJson(p.toxics[i])]]

ProxyToJson(p) ==
    [name |-> p.name, listen |-> p.listen, upstream |-> p.upstream,
     enabled |-> p.enabled,
     toxics |-> [i \in 1..Len(p.toxics) |-> ToxicToJson(p.toxics[i])]]

ProxyFromJson(j) ==
    [name |-> j.name, client |-> "None", listen |-> j.listen,
     upstream |-> j.upstream, enabled |-> j.enabled,
     toxics |-> [i \in 1..Len(j.toxics) |-> ToxicFromJson(j.toxics[i])]]

\* the latency toxics with_latency can build
LatencyAttributes(latency, jitter) ==
    [k \in {"latency", "jitter"} |-> IF k = "latency" THEN latency ELSE jitter]

\* the declarative proxies a caller builds with Proxy::new to populate with
DeclProxies == {Proxy_new(n, l, u) : n \in Names, l \in Listens, u \in Upstreams}

\* the declarative proxy of the test, also the one a caller may try to use as
\* a handle without ever binding it
SocketProxy == Proxy_new("socket", "localhost:2001", "localhost:2000")

\* ------------------------------------------------------------- HttpClient
\* A request of the HttpClient: the verb, the path appended to the base URI
\* (a sequence of the pieces format! joins) and the JSON body.
NoBody == [kind |-> "none"]

HttpClient_get(path) == [path |-> path, verb |-> "GET", body |-> NoBody]

HttpClient_post(path) == [path |-> path, verb |-> "POST", body |-> NoBody]

HttpClient_post_with_data(path, body) == [path |-> path, verb |-> "POST", body |-> body]

HttpClient_delete(path) == [path |-> path, verb |-> "DELETE", body |-> NoBody]

\* a probe that takes a failed connect for a running service
IsAliveAlways(reachable) == TRUE

\* is_alive: TcpStream::connect(addr).map(|_| true).unwrap_or(false)
HttpClient_is_alive(reachable) == IF reachable THEN TRUE ELSE FALSE

\* ---------------------------------------------------------------- service
\* The toxiproxy service behind the endpoints listed at the head of main.rs.
\* A response is a status and a JSON body; a path that is no endpoint is
\* answered 404 and changes nothing.
Response(s, status, body) == [server |-> s, body |-> body, status |-> status]

ErrorBody == [kind |-> "error"]

ToxicIndex(toxics, name) ==
    {i \in 1..Len(toxics) : toxics[i].name = name}

RemoveAt(seq, i) == SubSeq(seq, 1, i - 1) \o SubSeq(seq, i + 1, Len(seq))

\* POST /populate - Create or replace a list of proxies
RECURSIVE PopulateAll(_, _)
PopulateAll(s, proxies) ==
    IF proxies = <<>> THEN s
    ELSE LET p == Head(proxies)
             s1 == [n \in DOMAIN s \cup {p.name} |-> IF n = p.name THEN p ELSE s[n]]
         IN PopulateAll(s1, Tail(proxies))

ServePopulate(s, body) ==
    IF body.kind # "proxies" THEN Response(s, 400, ErrorBody)
    ELSE LET s1 == PopulateAll(s, body.proxies)
         IN Response(s1, 201,
                [kind |-> "populate",
                 proxies |-> [i \in 1..Len(body.proxies) |-> s1[body.proxies[i].name]]])

\* GET /proxies - List existing proxies and their toxics
ServeProxies(s) == Response(s, 200, [kind |-> "proxies", proxies |-> s])

\* POST /proxies/{proxy} - Update a proxy's fields
ServeUpdate(s, name, body) ==
    IF name \notin DOMAIN s THEN Response(s, 404, ErrorBody)
    ELSE IF body.kind # "fields" THEN Response(s, 400, ErrorBody)
    ELSE LET p == s[name]
             p1 == [p EXCEPT
                      !.enabled = IF "enabled" \in DOMAIN body.fields
                                  THEN body.fields.enabled ELSE @,
                      !.upstream = IF "upstream" \in DOMAIN body.fields
                                   THEN body.fields.upstream ELSE @]
         IN Response([s EXCEPT ![name] = p1], 200, [proxy |-> p1, kind |-> "proxy"])

\* DELETE /proxies/{proxy} - Delete an existing proxy
ServeDeleteProxy(s, name) ==
    IF name \notin DOMAIN s THEN Response(s, 404, ErrorBody)
    ELSE Response([n \in DOMAIN s \ {name} |-> s[n]], 204, NoBody)

\* GET /proxies/{proxy}/toxics - List active toxics
ServeToxics(s, name) ==
    IF name \notin DOMAIN s THEN Response(s, 404, ErrorBody)
    ELSE Response(s, 200, [toxics |-> s[name].toxics, kind |-> "toxics"])

\* POST /proxies/{proxy}/toxics - Create a new toxic
ServeCreateToxic(s, name, body) ==
    IF name \notin DOMAIN s THEN Response(s, 404, ErrorBody)
    ELSE IF body.kind # "toxic" THEN Response(s, 400, ErrorBody)
    ELSE IF ToxicIndex(s[name].toxics, body.toxic.name) # {}
         THEN Response(s, 409, ErrorBody)
    ELSE Response([s EXCEPT ![name].toxics = Append(@, body.toxic)], 200,
                  [kind |-> "toxic", toxic |-> body.toxic])

\* DELETE /proxies/{proxy}/toxics/{toxic} - Remove an active toxic
ServeDeleteToxic(s, name, toxic) ==
    IF name \notin DOMAIN s THEN Response(s, 404, ErrorBody)
    ELSE IF ToxicIndex(s[name].toxics, toxic) = {} THEN Response(s, 404, ErrorBody)
    ELSE LET i == CHOOSE j \in ToxicIndex(s[name].toxics, toxic) : TRUE
         IN Response([s EXCEPT ![name].toxics = RemoveAt(@, i)], 204, NoBody)

\* POST /reset - Enable all proxies and remove all active toxics
ServeReset(s) ==
    Response([n \in DOMAIN s |-> [s[n] EXCEPT !.enabled = TRUE, !.toxics = <<>>]],
             204, NoBody)

\* GET /version - Returns the server version number
ServeVersion(s) == Response(s, 200, [kind |-> "version"])

\* the routing of one request
Serve(s, r) ==
    LET path == r.path
        n == Len(path)
    IN CASE r.verb = "GET" /\ path = <<"/proxies">> -> ServeProxies(s)
         [] r.verb = "POST" /\ path = <<"/populate">> -> ServePopulate(s, r.body)
         [] r.verb = "POST" /\ path = <<"/reset">> -> ServeReset(s)
         [] r.verb = "GET" /\ path = <<"/version">> -> ServeVersion(s)
         [] r.verb = "POST" /\ n = 2 /\ path[1] = "/proxies/" ->
                ServeUpdate(s, path[2], r.body)
         [] r.verb = "DELETE" /\ n = 2 /\ path[1] = "/proxies/" ->
                ServeDeleteProxy(s, path[2])
         [] r.verb = "GET" /\ n = 3 /\ path[1] = "/proxies/" /\ path[3] = "/toxics" ->
                ServeToxics(s, path[2])
         [] r.verb = "POST" /\ n = 3 /\ path[1] = "/proxies/" /\ path[3] = "/toxics" ->
                ServeCreateToxic(s, path[2], r.body)
         [] r.verb = "DELETE" /\ n = 4 /\ path[1] = "/proxies/" /\ path[3] = "/toxics/" ->
                ServeDeleteToxic(s, path[2], path[4])
         [] OTHER -> Response(s, 404, ErrorBody)

\* ----------------------------------------------------------------- callers
ERR_MISSING_HTTP_CLIENT == "HTTP client not available"
ERR_LOCK == "Lock cannot be granted"
ERR_CLIENT_LOCK == "Client lock failed"

NoProxy == [name |-> "", client |-> "None"]
\* the arguments of a call, as a record; none for most operations
NoArg == [name |-> ""]
NoFrame == [op |-> "none", arg |-> NoArg]
NoReturn == [op |-> "none", arg |-> NoArg, out |-> [tag |-> "none"]]

\* the operation a caller runs: its arguments, its receiver, the phase it is
\* in, the request it is sending and, in delete_all_toxics, the toxics still
\* to delete
Frame(op, self, phase, req) ==
    [op |-> op, arg |-> NoArg, self |-> self, phase |-> phase, req |-> req,
     todo |-> <<>>, nested |-> 0]

\* the values operations end with
OkUnit == [tag |-> "Ok", val |-> "()"]
OkProxies(list) == [proxies |-> list, tag |-> "Ok", val |-> "Vec<Proxy>"]
OkMap(map) == [tag |-> "Ok", val |-> "HashMap<String, Proxy>", map |-> map]
OkToxics(list) == [toxics |-> list, tag |-> "Ok", val |-> "Vec<Toxic>"]
OkVersion == [tag |-> "Ok", val |-> "String"]
Err(msg) == [tag |-> "Err", msg |-> msg]
SomeProxy(p) == [proxy |-> p, tag |-> "Some"]
None == [tag |-> "None"]
Bool(b) == [tag |-> "Bool", bool |-> b]
Ref(p) == [proxy |-> p, tag |-> "Ref"]
Panic(msg) == [tag |-> "Panic", msg |-> msg]

\* the Proxy values an operation handed to its caller
ProxiesIn(out) ==
    CASE out.tag = "Ok" /\ out.val = "Vec<Proxy>" ->
            {out.proxies[i] : i \in 1..Len(out.proxies)}
      [] out.tag = "Ok" /\ out.val = "HashMap<String, Proxy>" ->
            {out.map[n] : n \in DOMAIN out.map}
      [] out.tag \in {"Some", "Ref"} -> {out.proxy}
      [] OTHER -> {}

\* the Proxy values a caller can invoke an operation on: the one it kept, the
\* ones just handed to it, and a declarative one it built
Receivers(t) ==
    (IF held[t].name = "" THEN {} ELSE {held[t]}) \cup ProxiesIn(ret[t].out)
        \cup {SocketProxy}

\* what one request ends in: send() fails when the service is unreachable;
\* otherwise the response arrives, and reading its body may still fail
Outcomes == IF up THEN {"ok", "cut"} ELSE {"failed"}

\* response.json(): the body has to arrive and to have the expected shape
JsonOk(o, resp, kind) == o = "ok" /\ resp.body.kind = kind

\* the caller-local part of a step
Local(t, newpc, frame, apply, value, proxy) ==
    /\ pc' = [pc EXCEPT ![t] = newpc]
    /\ cur' = [cur EXCEPT ![t] = frame]
    /\ outer' = [outer EXCEPT ![t] = apply]
    /\ ret' = [ret EXCEPT ![t] = value]
    /\ held' = [held EXCEPT ![t] = proxy]

\* a panic unwinds through the operation, and through the apply around it
Unwind(t, op, msg) ==
    Local(t, "idle", NoFrame, NoFrame,
          [op |-> IF outer[t].op = "none" THEN op ELSE outer[t].op,
           arg |-> cur[t].arg, out |-> Panic(msg)], held[t])

\* an operation returns: to the scenario that called it, or to the caller
Return(t, out) ==
    IF outer[t].op = "none"
    THEN Local(t, "idle", NoFrame, NoFrame,
               [op |-> cur[t].op, arg |-> cur[t].arg, out |-> out], held[t])
    ELSE Local(t, "scenario", NoFrame, outer[t], ret[t], held[t])

\* the registry's client is always there
IssueRegistry(t, frame) == Local(t, "waiting", frame, outer[t], ret[t], held[t])

CanCall(t) == pc[t] = "idle" /\ calls > 0

\* a call that goes for the lock without looking at the receiver's client
CallOnUnchecked(t, h, frame) ==
    /\ CanCall(t)
    /\ h \in Receivers(t)
    /\ Local(t, "waiting", frame, NoFrame, ret[t], h)
    /\ sent' = [sent EXCEPT ![t] = <<>>]
    /\ calls' = calls - 1
    /\ UNCHANGED <<server, up, lock, poisoned>>

\* receiver.op(..) on a Proxy value the caller has: at
\* self.client.as_ref().expect(ERR_MISSING_HTTP_CLIENT) the unbound one
\* panics, before any lock is taken
CallOn(t, h, frame) ==
    /\ CanCall(t)
    /\ h \in Receivers(t)
    /\ IF h.client = "None"
       THEN Unwind(t, frame.op, ERR_MISSING_HTTP_CLIENT)
       ELSE Local(t, "waiting", frame, NoFrame, ret[t], h)
    /\ sent' = [sent EXCEPT ![t] = <<>>]
    /\ calls' = calls - 1
    /\ UNCHANGED <<server, up, lock, poisoned>>

CallRegistry(t, frame) ==
    /\ CanCall(t)
    /\ IssueRegistry(t, frame)
    /\ sent' = [sent EXCEPT ![t] = <<>>]
    /\ calls' = calls - 1
    /\ UNCHANGED <<server, up, lock, poisoned>>

\* ------------------------------------------------------------------- paths
ProxyPath(name) == <<"/proxies/", name>>

ToxicsPath(name) == <<"/proxies/", name, "/toxics">>

\* a path cut short after the proxy's name
ProxyPathForToxic(name, toxic) == <<"/proxies/", name>>

\* delete_all_toxics: format!("/proxies/{}/toxics.{}", self.name, toxic.name)
ToxicDeletePath(name, toxic) == <<"/proxies/", name, "/toxics.", toxic>>

\* ------------------------------------------------------------------- Mutex
NoRequest == [path |-> <<>>, verb |-> "", body |-> NoBody]

\* one line of a caller's record of requests: the request, how it ended
\* ("pending", "failed", "cut", "ok") and the status answered (0: none)
Sent(req, outcome, status) == [status |-> status, req |-> req, outcome |-> outcome]

\* a lock that is granted while another caller holds the guard
LockNeverBlocks == TRUE

\* Mutex::lock blocks while another caller holds the guard
LockFree == lock = "free"

\* .lock().expect(..): the guard is taken and the request goes out under it;
\* a poisoned Mutex makes expect panic
Acquire(t) ==
    /\ pc[t] = "waiting"
    /\ LockFree
    /\ IF poisoned
       THEN /\ Unwind(t, cur[t].op,
                      IF cur[t].self.name = "" THEN ERR_CLIENT_LOCK ELSE ERR_LOCK)
            /\ UNCHANGED <<lock, sent>>
       ELSE /\ Local(t, "inflight", cur[t], outer[t], ret[t], held[t])
            /\ lock' = t
            /\ sent' = [sent EXCEPT ![t] =
                            IF cur[t].req = NoRequest THEN @
                            ELSE Append(@, Sent(cur[t].req, "pending", 0))]
    /\ UNCHANGED <<server, up, poisoned, calls>>

\* a guard that outlives the statement: the lock is never given back
ExchangeKeepsLock(t, o, panics) ==
    /\ pc[t] = "inflight"
    /\ o \in Outcomes
    /\ server' = IF o = "failed" THEN server ELSE Serve(server, cur[t].req).server
    /\ poisoned' = (poisoned \/ panics)
    /\ sent' = [sent EXCEPT ![t][Len(sent[t])] =
                    Sent(cur[t].req, o,
                         IF o = "failed" THEN 0 ELSE Serve(server, cur[t].req).status)]
    /\ UNCHANGED <<up, lock, calls>>

\* the response (or the failure) is in: the service has acted unless the send
\* failed, and the guard is dropped at the end of the statement
Exchange(t, o, panics) ==
    /\ pc[t] = "inflight"
    /\ o \in Outcomes
    /\ server' = IF o = "failed" THEN server ELSE Serve(server, cur[t].req).server
    /\ lock' = IF lock = t THEN "free" ELSE lock
    /\ poisoned' = (poisoned \/ panics)
    /\ sent' = [sent EXCEPT ![t][Len(sent[t])] =
                    Sent(cur[t].req, o,
                         IF o = "failed" THEN 0 ELSE Serve(server, cur[t].req).status)]
    /\ UNCHANGED <<up, calls>>

Resp(t) == Serve(server, cur[t].req)

\* ------------------------------------------------------------------- Proxy
FieldsBody(fields) == [kind |-> "fields", fields |-> fields]

UpdatePayloads ==
    {[enabled |-> b] : b \in BOOLEAN} \cup {[upstream |-> u] : u \in Upstreams}

\* Proxy::update: POST /proxies/{name} with the payload
Proxy_update_request(h, fields) == HttpClient_post_with_data(ProxyPath(h.name), FieldsBody(fields))

\* Proxy::disable / Proxy::enable: update with {"enabled": false / true}
Proxy_disable(t, h) ==
    CallOn(t, h, Frame("disable", h, "request", Proxy_update_request(h, [enabled |-> FALSE])))

\* an enable pasted from disable with the payload left as it was
Proxy_enable_sends_false(t, h) ==
    CallOn(t, h, Frame("enable", h, "request", Proxy_update_request(h, [enabled |-> FALSE])))

Proxy_enable(t, h) ==
    CallOn(t, h, Frame("enable", h, "request", Proxy_update_request(h, [enabled |-> TRUE])))

Proxy_update(t, h, fields) ==
    CallOn(t, h, Frame("update", h, "request", Proxy_update_request(h, fields)))

\* update's result: .map_err(..).map(|_| ()) on what post_with_data returned
Proxy_update_result(o) == IF o = "failed" THEN Err("<disable> has failed") ELSE OkUnit

Proxy_update_done(t) ==
    /\ cur[t].op \in {"disable", "enable", "update"}
    /\ \E o \in Outcomes :
        /\ Exchange(t, o, FALSE)
        /\ Return(t, Proxy_update_result(o))

\* Proxy::down: self.disable().expect("cannot be disabled"); self
Proxy_down(t, h) ==
    CallOn(t, h, Frame("down", h, "request", Proxy_update_request(h, [enabled |-> FALSE])))

Proxy_down_done(t) ==
    /\ cur[t].op = "down"
    /\ \E o \in Outcomes :
        /\ Exchange(t, o, FALSE)
        /\ IF Proxy_update_result(o).tag = "Err"
           THEN Unwind(t, "down", "cannot be disabled")
           ELSE Return(t, Ref(cur[t].self))

\* Proxy::delete: DELETE /proxies/{name}
Proxy_delete(t, h) ==
    CallOn(t, h, Frame("delete", h, "request", HttpClient_delete(ProxyPath(h.name))))

Proxy_delete_result(o) == IF o = "failed" THEN Err("<disable> has failed") ELSE OkUnit

Proxy_delete_done(t) ==
    /\ cur[t].op = "delete"
    /\ \E o \in Outcomes :
        /\ Exchange(t, o, FALSE)
        /\ Return(t, Proxy_delete_result(o))

\* Proxy::toxics: GET /proxies/{name}/toxics, decoded as Vec<Toxic>
Proxy_toxics_request(h) == HttpClient_get(ToxicsPath(h.name))

Proxy_toxics_result(o, resp) ==
    IF JsonOk(o, resp, "toxics")
    THEN OkToxics([i \in 1..Len(resp.body.toxics) |-> ToxicFromJson(resp.body.toxics[i])])
    ELSE Err("<proxies>.<toxics> has failed")

Proxy_toxics(t, h) == CallOn(t, h, Frame("toxics", h, "request", Proxy_toxics_request(h)))

Proxy_toxics_done(t) ==
    /\ cur[t].op = "toxics"
    /\ \E o \in Outcomes :
        /\ Exchange(t, o, FALSE)
        /\ Return(t, Proxy_toxics_result(o, Resp(t)))

\* Proxy::with_latency: POST /proxies/{name}/toxics with the latency toxic;
\* only a failed send panics, inside map_err, with the guard still alive
LatencyToxic(stream, latency, jitter, toxicity) ==
    Toxic_new("latency", stream, toxicity, LatencyAttributes(latency, jitter))

Proxy_with_latency_request(h, toxic) ==
    HttpClient_post_with_data(ToxicsPath(h.name), [kind |-> "toxic", toxic |-> ToxicToJson(toxic)])

Proxy_with_latency(t, h, stream, latency, jitter, toxicity) ==
    CallOn(t, h, [Frame("with_latency", h, "request",
                        Proxy_with_latency_request(
                            h, LatencyToxic(stream, latency, jitter, toxicity)))
                    EXCEPT !.arg = [stream |-> stream, toxicity |-> toxicity,
                                    latency |-> latency, jitter |-> jitter]])

\* a map_err that lets the failed send pass
Proxy_with_latency_ignores(o) == FALSE

Proxy_with_latency_panics(o) == o = "failed"

Proxy_with_latency_done(t) ==
    /\ cur[t].op = "with_latency"
    /\ \E o \in Outcomes :
        /\ Exchange(t, o, Proxy_with_latency_panics(o))
        /\ IF Proxy_with_latency_panics(o)
           THEN Unwind(t, "with_latency", "<proxies>.<toxics> creation has failed")
           ELSE Return(t, Ref(cur[t].self))

\* ------------------------------------------------- apply, delete_all_toxics
\* an apply that takes the guard before it runs the scenario
Proxy_apply_locked(t, h) ==
    /\ CanCall(t)
    /\ h \in Receivers(t)
    /\ LockFree
    /\ Local(t, "scenario", NoFrame, Frame("apply", h, "scenario", NoRequest), ret[t], h)
    /\ sent' = [sent EXCEPT ![t] = <<>>]
    /\ calls' = calls - 1
    /\ lock' = t
    /\ UNCHANGED <<server, up, poisoned>>

\* Proxy::apply: closure() runs first, with no lock held
Proxy_apply(t, h) ==
    /\ CanCall(t)
    /\ h \in Receivers(t)
    /\ Local(t, "scenario", NoFrame, Frame("apply", h, "scenario", NoRequest), ret[t], h)
    /\ sent' = [sent EXCEPT ![t] = <<>>]
    /\ calls' = calls - 1
    /\ UNCHANGED <<server, up, lock, poisoned>>

\* delete_all_toxics starts with self.toxics()
Proxy_delete_all_toxics(t, op, self) ==
    IF self.client = "None"
    THEN Unwind(t, op, ERR_MISSING_HTTP_CLIENT)
    ELSE Local(t, "waiting", Frame(op, self, "toxics", Proxy_toxics_request(self)),
               NoFrame, ret[t], held[t])

\* the scenario returns: apply goes on to self.delete_all_toxics()
Proxy_apply_closure_returns(t) ==
    /\ pc[t] = "scenario"
    /\ Proxy_delete_all_toxics(t, "apply", outer[t].self)
    /\ UNCHANGED <<server, up, lock, poisoned, sent, calls>>

\* the scenario panics: the panic unwinds through apply, whose second
\* statement is never reached
Proxy_apply_closure_panics(t) ==
    /\ pc[t] = "scenario"
    /\ Unwind(t, "apply", "scenario panicked")
    /\ UNCHANGED <<server, up, lock, poisoned, sent, calls>>

\* delete_all_toxics is over: apply returns its result, find_proxy drops it
\* and returns the proxy
Proxy_delete_all_toxics_end(t, result) ==
    IF cur[t].op = "find_proxy"
    THEN Return(t, SomeProxy(cur[t].self))
    ELSE Return(t, result)

Proxy_delete_all_toxics_error(err) == Err("cannot delete toxics: " \o err.msg)

\* the for loop of delete_all_toxics: the next DELETE, or Ok(()) at the end
Proxy_delete_all_toxics_next(t, list) ==
    IF list = <<>>
    THEN Proxy_delete_all_toxics_end(t, OkUnit)
    ELSE Local(t, "waiting",
               [cur[t] EXCEPT !.phase = "delete", !.todo = list,
                              !.req = HttpClient_delete(ToxicDeletePath(cur[t].self.name,
                                                                 list[1].name))],
               outer[t], ret[t], held[t])

\* self.toxics() is back: an Err ends delete_all_toxics, a list starts the loop
Proxy_delete_all_toxics_listed(t) ==
    /\ cur[t].op \in {"apply", "find_proxy"}
    /\ cur[t].phase = "toxics"
    /\ \E o \in Outcomes :
        /\ Exchange(t, o, FALSE)
        /\ LET listed == Proxy_toxics_result(o, Resp(t))
           IN IF listed.tag = "Err"
              THEN Proxy_delete_all_toxics_end(t, Proxy_delete_all_toxics_error(listed))
              ELSE Proxy_delete_all_toxics_next(t, listed.toxics)

\* a loop that goes on after a failed DELETE
DeleteFailureIgnored(o) == FALSE

\* what the loop does with the result of one DELETE
DeleteFailed(o) == o = "failed"

\* one DELETE is back: a failed one returns the Err at once
Proxy_delete_all_toxics_deleted(t) ==
    /\ cur[t].op \in {"apply", "find_proxy"}
    /\ cur[t].phase = "delete"
    /\ \E o \in Outcomes :
        /\ Exchange(t, o, FALSE)
        /\ IF DeleteFailed(o)
           THEN Proxy_delete_all_toxics_end(
                    t, Proxy_delete_all_toxics_error(Err("<proxies>.<toxics> delete failed")))
           ELSE Proxy_delete_all_toxics_next(t, Tail(cur[t].todo))

\* --------------------------------------------------------------- Toxiproxy
RegistryFrame(op, req) == Frame(op, NoProxy, "request", req)

\* the lists of declarative proxies a caller populates with
RECURSIVE SeqsUpTo(_, _)
SeqsUpTo(S, n) ==
    IF n = 0 THEN {<<>>}
    ELSE LET shorter == SeqsUpTo(S, n - 1)
         IN shorter \cup {Append(q, x) : q \in shorter, x \in S}

PopulateInputs ==
    {q \in SeqsUpTo(DeclProxies, MaxPopulate) :
        /\ q # <<>>
        /\ \A i, j \in 1..Len(q) : q[i].name = q[j].name => i = j}

\* Toxiproxy::populate: POST /populate with the JSON of the list
Toxiproxy_populate_request(proxies) ==
    HttpClient_post_with_data(<<"/populate">>,
        [kind |-> "proxies",
         proxies |-> [i \in 1..Len(proxies) |-> ProxyToJson(proxies[i])]])

Toxiproxy_populate(t, proxies) ==
    CallRegistry(t, [RegistryFrame("populate", Toxiproxy_populate_request(proxies))
                        EXCEPT !.arg = [proxies |-> proxies]])

\* the decoded Vec<Proxy> under "proxies", as serde builds it
Toxiproxy_populate_result(o, resp) ==
    IF JsonOk(o, resp, "populate")
    THEN OkProxies([i \in 1..Len(resp.body.proxies) |-> ProxyFromJson(resp.body.proxies[i])])
    ELSE Err("<populate> has failed")

Toxiproxy_populate_done(t) ==
    /\ cur[t].op = "populate"
    /\ \E o \in Outcomes :
        /\ Exchange(t, o, FALSE)
        /\ Return(t, Toxiproxy_populate_result(o, Resp(t)))

\* Toxiproxy::reset: POST /reset
Toxiproxy_reset(t) == CallRegistry(t, RegistryFrame("reset", HttpClient_post(<<"/reset">>)))

Toxiproxy_reset_result(o) == IF o = "failed" THEN Err("<reset> has failed") ELSE OkUnit

Toxiproxy_reset_done(t) ==
    /\ cur[t].op = "reset"
    /\ \E o \in Outcomes :
        /\ Exchange(t, o, FALSE)
        /\ Return(t, Toxiproxy_reset_result(o))

\* Toxiproxy::all: GET /proxies, decoded as HashMap<String, Proxy>
Toxiproxy_all_request == HttpClient_get(<<"/proxies">>)

Toxiproxy_all_result(o, resp) ==
    IF JsonOk(o, resp, "proxies")
    THEN OkMap([n \in DOMAIN resp.body.proxies |-> ProxyFromJson(resp.body.proxies[n])])
    ELSE Err("<proxies> has failed")

Toxiproxy_all(t) == CallRegistry(t, RegistryFrame("all", Toxiproxy_all_request))

\* the scenario of the test calls TOXIPROXY.all() from inside apply
Proxy_apply_closure_all(t) ==
    /\ pc[t] = "scenario"
    /\ outer[t].nested < MaxScenarioCalls
    /\ Local(t, "waiting", RegistryFrame("all", Toxiproxy_all_request),
             [outer[t] EXCEPT !.nested = @ + 1], ret[t], held[t])
    /\ UNCHANGED <<server, up, lock, poisoned, sent, calls>>

Toxiproxy_all_done(t) ==
    /\ cur[t].op = "all"
    /\ \E o \in Outcomes :
        /\ Exchange(t, o, FALSE)
        /\ Return(t, Toxiproxy_all_result(o, Resp(t)))

\* Toxiproxy::is_running: is_alive under the lock; no request is sent
Toxiproxy_is_running(t) == CallRegistry(t, RegistryFrame("is_running", NoRequest))

Toxiproxy_is_running_done(t) ==
    /\ cur[t].op = "is_running"
    /\ pc[t] = "inflight"
    /\ lock' = IF lock = t THEN "free" ELSE lock
    /\ Return(t, Bool(HttpClient_is_alive(up)))
    /\ UNCHANGED <<server, up, poisoned, sent, calls>>

\* Toxiproxy::version: GET /version; a body that cannot be read panics inside
\* map, with the guard still alive
Toxiproxy_version(t) == CallRegistry(t, RegistryFrame("version", HttpClient_get(<<"/version">>)))

Toxiproxy_version_panics(o) == o = "cut"

Toxiproxy_version_done(t) ==
    /\ cur[t].op = "version"
    /\ \E o \in Outcomes :
        /\ Exchange(t, o, Toxiproxy_version_panics(o))
        /\ IF Toxiproxy_version_panics(o)
           THEN Unwind(t, "version", "HTTP response cannot be read")
           ELSE Return(t, IF o = "failed" THEN Err("<version> has failed") ELSE OkVersion)

\* Toxiproxy::find_proxy: self.all() first
Toxiproxy_find_proxy(t, name) ==
    CallRegistry(t, [RegistryFrame("find_proxy", Toxiproxy_all_request) EXCEPT
                        !.phase = "all", !.arg = [name |-> name]])

\* proxy_map.remove(name).map(|proxy| proxy.with_client(..)); None, or the
\* bound proxy as a one-element set
Toxiproxy_find_proxy_bind(map, name) ==
    IF name \in DOMAIN map THEN {Proxy_with_client(map[name])} ELSE {}

\* all() is back inside find_proxy: an Err and a missing name both end in
\* None (unwrap_or(None)); a proxy found is bound and has its toxics deleted
Toxiproxy_find_proxy_listed(t) ==
    /\ cur[t].op = "find_proxy"
    /\ cur[t].phase = "all"
    /\ \E o \in Outcomes :
        /\ Exchange(t, o, FALSE)
        /\ LET listed == Toxiproxy_all_result(o, Resp(t))
               found == IF listed.tag = "Err" THEN {}
                        ELSE Toxiproxy_find_proxy_bind(listed.map, cur[t].arg.name)
           IN IF found = {}
              THEN Return(t, None)
              ELSE \E proxy \in found :
                      Local(t, "waiting",
                            [Frame("find_proxy", proxy, "toxics", Proxy_toxics_request(proxy))
                                EXCEPT !.arg = cur[t].arg],
                            NoFrame, ret[t], held[t])

\* ------------------------------------------------------------- environment
ServiceDown ==
    /\ up
    /\ up' = FALSE
    /\ UNCHANGED <<server, lock, poisoned, pc, cur, outer, ret, held, sent, calls>>

ServiceUp ==
    /\ ~up
    /\ up' = TRUE
    /\ UNCHANGED <<server, lock, poisoned, pc, cur, outer, ret, held, sent, calls>>

\* ------------------------------------------------------------ specification
\* the service outlives its clients: it may hold nothing, a proxy, or a proxy
\* with a toxic an earlier run left attached
EmptyServer == [n \in {} |-> NoProxy]

SocketServer == PopulateAll(EmptyServer, <<ProxyToJson(SocketProxy)>>)

LeftoverToxic == LatencyToxic("downstream", 2000, 0, 10)

LeftoverServer ==
    ServeCreateToxic(SocketServer, "socket",
                     [kind |-> "toxic", toxic |-> ToxicToJson(LeftoverToxic)]).server

InitServers == {EmptyServer, SocketServer, LeftoverServer}

InitWith(budget) ==
    /\ server \in InitServers
    /\ up \in BOOLEAN
    /\ lock = "free"
    /\ poisoned = FALSE
    /\ pc = [t \in Threads |-> "idle"]
    /\ cur = [t \in Threads |-> NoFrame]
    /\ outer = [t \in Threads |-> NoFrame]
    /\ ret = [t \in Threads |-> NoReturn]
    /\ held = [t \in Threads |-> NoProxy]
    /\ sent = [t \in Threads |-> <<>>]
    /\ calls = budget

Step(t) ==
    \/ \E proxies \in PopulateInputs : Toxiproxy_populate(t, proxies)
    \/ Toxiproxy_reset(t)
    \/ Toxiproxy_all(t)
    \/ Toxiproxy_is_running(t)
    \/ Toxiproxy_version(t)
    \/ \E name \in Names : Toxiproxy_find_proxy(t, name)
    \/ \E h \in Receivers(t) :
        \/ Proxy_disable(t, h)
        \/ Proxy_enable(t, h)
        \/ \E fields \in UpdatePayloads : Proxy_update(t, h, fields)
        \/ Proxy_down(t, h)
        \/ Proxy_delete(t, h)
        \/ Proxy_toxics(t, h)
        \/ \E stream \in Streams, latency \in Latencies, jitter \in Jitters,
              toxicity \in Toxicities :
                Proxy_with_latency(t, h, stream, latency, jitter, toxicity)
        \/ Proxy_apply(t, h)
    \/ Acquire(t)
    \/ Proxy_update_done(t)
    \/ Proxy_down_done(t)
    \/ Proxy_delete_done(t)
    \/ Proxy_toxics_done(t)
    \/ Proxy_with_latency_done(t)
    \/ Proxy_apply_closure_all(t)
    \/ Proxy_apply_closure_returns(t)
    \/ Proxy_apply_closure_panics(t)
    \/ Proxy_delete_all_toxics_listed(t)
    \/ Proxy_delete_all_toxics_deleted(t)
    \/ Toxiproxy_populate_done(t)
    \/ Toxiproxy_reset_done(t)
    \/ Toxiproxy_all_done(t)
    \/ Toxiproxy_is_running_done(t)
    \/ Toxiproxy_version_done(t)
    \/ Toxiproxy_find_proxy_listed(t)

Environment == ServiceDown \/ ServiceUp

\* one caller
Init == InitWith(MaxCalls)

Next == Step("t1") \/ Environment

Spec == Init /\ [][Next]_vars

\* concurrent callers, against a service that holds the proxy with a toxic
\* attached, so that every operation has something to act on
InitConc == InitWith(MaxConcCalls) /\ server = LeftoverServer

NextConc == (\E t \in Threads : Step(t)) \/ Environment

SpecConc == InitConc /\ [][NextConc]_vars

\* concurrent callers, with every request completing (send() returns, with a
\* response or with an error) and with a Mutex that does not pass a blocked
\* caller over for ever
Completes(t) ==
    \/ Proxy_update_done(t)
    \/ Proxy_down_done(t)
    \/ Proxy_delete_done(t)
    \/ Proxy_toxics_done(t)
    \/ Proxy_with_latency_done(t)
    \/ Proxy_delete_all_toxics_listed(t)
    \/ Proxy_delete_all_toxics_deleted(t)
    \/ Toxiproxy_populate_done(t)
    \/ Toxiproxy_reset_done(t)
    \/ Toxiproxy_all_done(t)
    \/ Toxiproxy_is_running_done(t)
    \/ Toxiproxy_version_done(t)
    \/ Toxiproxy_find_proxy_listed(t)

Fairness == \A t \in Threads : SF_vars(Acquire(t)) /\ WF_vars(Completes(t))

SpecConcFair == InitConc /\ [][NextConc]_vars /\ Fairness

\* ------------------------------------------------------------------ claims
\* caller t is back from operation op and has started nothing since
Ended(t, op) == pc[t] = "idle" /\ ret[t].op = op

\* caller t comes back from operation op in this step
Ends(t, op) == pc[t] # "idle" /\ pc'[t] = "idle" /\ ret'[t].op = op

\* the toxics the service holds on a proxy
ToxicsOn(name) == IF name \in DOMAIN server THEN server[name].toxics ELSE <<>>

\* the requests of t's latest operation that ended in a failed send
FailedRequests(t) == {i \in 1..Len(sent[t]) : sent[t][i].outcome = "failed"}

\* C1: whenever apply on proxy p has returned Ok, the service holds no toxic
\* on p (stated for one caller, so that nothing changes the service once
\* apply has returned).
C1_ApplyOkLeavesNoToxic ==
    \A t \in Threads :
        (Ended(t, "apply") /\ ret[t].out.tag = "Ok") => ToxicsOn(held[t].name) = <<>>

\* C2: whenever control has left apply on a bound proxy, by return or by a
\* panic, and the lock is not poisoned, apply has sent the listing of the
\* proxy's toxics that starts its cleanup.
C2_CleanupAlwaysAttempted ==
    \A t \in Threads :
        (Ended(t, "apply") /\ held[t].client = "Some" /\ ~poisoned) =>
            \E i \in 1..Len(sent[t]) : sent[t][i].req = Proxy_toxics_request(held[t])

C4_FoundProxyHasNoToxic ==
    \A t \in Threads :
        (Ended(t, "find_proxy") /\ ret[t].out.tag = "Some") =>
            ToxicsOn(ret[t].out.proxy.name) = <<>>

\* C5: find_proxy(name) returns None only when the service has no proxy of
\* that name, and when a request of the lookup or of the cleanup failed it
\* returns neither None nor a proxy.
C5_FindProxySurfacesFailure ==
    \A t \in Threads :
        Ended(t, "find_proxy") =>
            /\ ret[t].out.tag = "None" => ret[t].arg.name \notin DOMAIN server
            /\ FailedRequests(t) # {} => ret[t].out.tag \notin {"None", "Some"}

\* C6: every Proxy value populate, all or find_proxy has returned holds the
\* registry's client.
C6_ReturnedProxiesAreBound ==
    \A t \in Threads :
        (pc[t] = "idle" /\ ret[t].op \in {"populate", "all", "find_proxy"}) =>
            \A p \in ProxiesIn(ret[t].out) : p.client = "Some"

\* C7: at most one caller has a request (or the liveness probe) in flight, and
\* that caller holds the lock for as long as it is in flight.
C7_OneRequestInFlight ==
    \A t, u \in Threads :
        /\ pc[t] = "inflight" => lock = t
        /\ (pc[t] = "inflight" /\ pc[u] = "inflight") => t = u

\* one caller's request is in flight while another caller waits for the lock
C7_Witness ==
    \E t, u \in Threads : t # u /\ pc[t] = "inflight" /\ pc[u] = "waiting"

\* C8, as claimed: is_running always ends in a boolean.
C8_IsRunningNeverRaises ==
    \A t \in Threads : Ended(t, "is_running") => ret[t].out.tag = "Bool"

\* C8, amended: is_running ends in the boolean of the probe, false when the
\* service is unreachable, unless the lock is poisoned, and then it panics
\* with "Client lock failed".
C8_IsRunningBoolUnlessPoisoned ==
    [][\A t \in Threads :
        Ends(t, "is_running") =>
            IF poisoned
            THEN ret'[t].out = Panic(ERR_CLIENT_LOCK)
            ELSE ret'[t].out = Bool(up)]_vars

\* is_running has answered false with the service unreachable
C8_Witness ==
    /\ Ended("t1", "is_running")
    /\ ret["t1"].out.tag = "Bool"
    /\ ~ret["t1"].out.bool
    /\ ~up
    /\ ~poisoned

\* C9: whenever with_latency has returned the handle, the service holds the
\* toxic named in its request on that proxy; whenever down has returned the
\* handle, the service holds that proxy disabled.
C9_BuilderReturnsOnlyWithFault ==
    \A t \in Threads :
        /\ (Ended(t, "with_latency") /\ ret[t].out.tag = "Ref") =>
              ToxicIndex(ToxicsOn(held[t].name),
                         sent[t][Len(sent[t])].req.body.toxic.name) # {}
        /\ (Ended(t, "down") /\ ret[t].out.tag = "Ref") =>
              /\ held[t].name \in DOMAIN server
              /\ ~server[held[t].name].enabled

\* C10: whenever enable, disable, update, delete or reset has returned Ok, its
\* request was answered, with a status of success.
C10_OkOnlyWhenAccepted ==
    \A t \in Threads :
        (/\ pc[t] = "idle"
         /\ ret[t].op \in {"enable", "disable", "update", "delete", "reset"}
         /\ ret[t].out.tag = "Ok") =>
            /\ sent[t][Len(sent[t])].outcome # "failed"
            /\ sent[t][Len(sent[t])].status \in {200, 201, 204}

\* C11: on every proxy of the service no two toxics share a type and a stream;
\* and whenever with_latency has returned the handle, every latency toxic the
\* service holds on that proxy for the stream of the call has the attributes
\* and the toxicity of that call.
C11_ReattachReplaces ==
    /\ \A n \in DOMAIN server :
          \A i, j \in 1..Len(server[n].toxics) :
              (/\ server[n].toxics[i].type = server[n].toxics[j].type
               /\ server[n].toxics[i].stream = server[n].toxics[j].stream) => i = j
    /\ \A t \in Threads :
          (Ended(t, "with_latency") /\ ret[t].out.tag = "Ref") =>
              \A i \in 1..Len(ToxicsOn(held[t].name)) :
                  LET toxic == ToxicsOn(held[t].name)[i]
                  IN (toxic.type = "latency" /\ toxic.stream = ret[t].arg.stream) =>
                        /\ toxic.attributes.latency = ret[t].arg.latency
                        /\ toxic.attributes.jitter = ret[t].arg.jitter
                        /\ toxic.toxicity = ret[t].arg.toxicity

\* the create-toxic request the claims expect of with_latency(stream, latency,
\* jitter, toxicity) on the proxy called name, written out field by field
ExpectedCreateToxic(name, args) ==
    [path |-> <<"/proxies/", name, "/toxics">>,
     verb |-> "POST",
     body |-> [kind |-> "toxic",
               toxic |-> [type |-> "latency", stream |-> args.stream,
                          toxicity |-> args.toxicity,
                          attributes |-> [latency |-> args.latency, jitter |-> args.jitter],
                          name |-> "latency_" \o args.stream]]]

\* with_latency got past the client and the lock: it returned the handle, or
\* halted on the failed send
PastLock(out) ==
    \/ out.tag = "Ref"
    \/ out = Panic("<proxies>.<toxics> creation has failed")

\* C12: with_latency(s, l, j, t) on a bound handle sends nothing but the
\* request POST /proxies/{name}/toxics with the toxic of type latency, stream
\* s, toxicity t, name latency_<s> and attributes {latency: l, jitter: j}, and
\* it has sent that request exactly once when it returns the handle or halts
\* on the failed send.
C12_WithLatencySendsOneCreate ==
    \A t \in Threads :
        /\ cur[t].op = "with_latency" =>
              /\ Len(sent[t]) = (IF pc[t] = "inflight" THEN 1 ELSE 0)
              /\ \A i \in 1..Len(sent[t]) :
                    sent[t][i].req = ExpectedCreateToxic(held[t].name, cur[t].arg)
        /\ Ended(t, "with_latency") =>
              IF PastLock(ret[t].out)
              THEN /\ Len(sent[t]) = 1
                   /\ sent[t][1].req = ExpectedCreateToxic(held[t].name, ret[t].arg)
              ELSE sent[t] = <<>>

\* with_latency("downstream", 2000, 0, 1.0) has returned the handle and the
\* service has created the toxic named latency_downstream
C12_Witness ==
    /\ Ended("t1", "with_latency")
    /\ ret["t1"].out.tag = "Ref"
    /\ ret["t1"].arg.stream = "downstream"
    /\ ret["t1"].arg.latency = 2000
    /\ ret["t1"].arg.jitter = 0
    /\ Len(sent["t1"]) = 1
    /\ sent["t1"][1].status = 200
    /\ sent["t1"][1].req.body.toxic.name = "latency_downstream"
    /\ sent["t1"][1].req.body.toxic.attributes = [latency |-> 2000, jitter |-> 0]

\* C13: when enable has returned Ok and the caller's next call is enable
\* again, answered by the service, the second call returns Ok too and leaves
\* the service as the first call left it, the proxy enabled and its toxics
\* untouched; likewise for disable after disable (stated for one caller, so
\* that the service is as the first call left it when the second is sent).
C13_EnableDisableIdempotent ==
    [][\A t \in Threads :
        (/\ pc[t] = "inflight"
         /\ cur[t].op \in {"enable", "disable"}
         /\ ret[t].op = cur[t].op
         /\ ret[t].out = OkUnit
         /\ pc'[t] # "inflight"
         /\ sent'[t][Len(sent'[t])].outcome # "failed")
        => /\ Ends(t, cur[t].op)
           /\ ret'[t].out = OkUnit
           /\ server' = server
           /\ held[t].name \in DOMAIN server' =>
                 server'[held[t].name].enabled = (cur[t].op = "enable")]_vars

\* the second enable in a row is in flight to a service that holds the proxy
\* enabled since the first
C13_Witness ==
    /\ pc["t1"] = "inflight"
    /\ cur["t1"].op = "enable"
    /\ ret["t1"].op = "enable"
    /\ ret["t1"].out = OkUnit
    /\ up
    /\ held["t1"].name \in DOMAIN server
    /\ server[held["t1"].name].enabled
    /\ server[held["t1"].name].toxics # <<>>

LatestOp(t) ==
    IF pc[t] = "idle" THEN ret[t].op
    ELSE IF outer[t].op # "none" THEN "apply" ELSE cur[t].op

\* the name of the proxy that apply or find_proxy of caller t cleans up
CleanupProxy(t) ==
    IF LatestOp(t) = "apply" THEN held[t].name
    ELSE IF pc[t] = "idle" THEN ret[t].arg.name ELSE cur[t].arg.name

\* the DELETE requests among those of t's latest operation
Deletes(t) == {i \in 1..Len(sent[t]) : sent[t][i].req.verb = "DELETE"}

\* C15: every delete request the cleanup of apply or of find_proxy on proxy p
\* sends is a DELETE to /proxies/{p}/toxics/{toxicName}, the delete-a-toxic
\* endpoint, and no toxic name gets two of them.
C15_CleanupDeletesAtToxicEndpoint ==
    \A t \in Threads :
        LatestOp(t) \in {"apply", "find_proxy"} =>
            \A i \in Deletes(t) :
                LET path == sent[t][i].req.path
                IN /\ Len(path) = 4
                   /\ path[1] = "/proxies/"
                   /\ path[2] = CleanupProxy(t)
                   /\ path[3] = "/toxics/"
                   /\ \A j \in Deletes(t) : sent[t][j].req.path[4] = path[4] => i = j

\* C16: no caller ever waits for the lock, holds it or has a request in
\* flight on behalf of an unbound Proxy; a call that is over in the step that
\* invoked it has halted with "HTTP client not available", has sent nothing and
\* has left the lock, its poisoning and the service as they were; and so has
\* the cleanup of an apply on an unbound Proxy once the scenario has returned.
C16_UnboundProxyHaltsBeforeLock ==
    [][\A t \in Threads :
        /\ (pc'[t] \in {"waiting", "inflight"} /\ cur'[t].self.name # "")
           => cur'[t].self.client = "Some"
        /\ (/\ pc[t] = "idle"
            /\ pc'[t] = "idle"
            /\ (ret'[t] # ret[t] \/ sent'[t] # sent[t]))
           => /\ ret'[t].out = Panic(ERR_MISSING_HTTP_CLIENT)
              /\ sent'[t] = <<>>
              /\ UNCHANGED <<server, lock, poisoned>>
        /\ (/\ pc[t] = "scenario"
            /\ outer[t].self.client = "None"
            /\ pc'[t] # "scenario"
            /\ cur'[t] = NoFrame)
           => /\ Ends(t, "apply")
              /\ ret'[t].out.tag = "Panic"
              /\ UNCHANGED <<server, lock, poisoned, sent>>]_vars

\* enable on the unbound Proxy a populate returned has halted with nothing
\* sent
C16_Witness ==
    /\ Ended("t1", "enable")
    /\ ret["t1"].out = Panic(ERR_MISSING_HTTP_CLIENT)
    /\ sent["t1"] = <<>>
    /\ lock = "free"
    /\ ~poisoned
    /\ "db" \in DOMAIN server

\* a caller that is not in flight does not hold the lock, and a caller in
\* flight with a request has that request as the one pending line of its
\* record, the last
SentOnceUnderLock ==
    \A t \in Threads :
        /\ pc[t] # "inflight" => lock # t
        /\ (pc[t] = "inflight" /\ cur[t].req # NoRequest) =>
              /\ lock = t
              /\ sent[t] # <<>>
              /\ sent[t][Len(sent[t])] = Sent(cur[t].req, "pending", 0)
              /\ \A i \in 1..Len(sent[t]) :
                    sent[t][i].outcome = "pending" => i = Len(sent[t])

HaltedOnLock(t) ==
    /\ poisoned
    /\ pc[t] = "idle"
    /\ ret[t].out \in {Panic(ERR_LOCK), Panic(ERR_CLIENT_LOCK)}

CleanupRequest(req) ==
    \/ req.verb = "DELETE"
    \/ req.verb = "GET" /\ Len(req.path) = 3 /\ req.path[3] = "/toxics"

\* C18: while the scenario of an apply runs, the caller holds the lock only
\* for the time a request of the scenario itself is in flight, so a call the
\* scenario makes never waits for a lock its own apply holds; no request of
\* the cleanup is sent before the scenario has ended; and no request of the
\* scenario follows one of the cleanup.
C18_ScenarioRunsUnlocked ==
    \A t \in Threads :
        /\ pc[t] \in {"scenario", "waiting"} => lock # t
        /\ outer[t].op = "apply" =>
              \A i \in 1..Len(sent[t]) : sent[t][i].req = Toxiproxy_all_request
        /\ LatestOp(t) = "apply" =>
              \A i, j \in 1..Len(sent[t]) :
                  (i < j /\ CleanupRequest(sent[t][i].req)) => CleanupRequest(sent[t][j].req)

\* apply has returned: the scenario's all() was answered first, the listing
\* and a delete of the cleanup came after it
C18_Witness ==
    /\ Ended("t1", "apply")
    /\ Len(sent["t1"]) = 3
    /\ sent["t1"][1].req = Toxiproxy_all_request
    /\ sent["t1"][1].outcome = "ok"
    /\ sent["t1"][2].req = Proxy_toxics_request(held["t1"])
    /\ sent["t1"][3].req.verb = "DELETE"

\* C19: a with_latency whose request ends in a failed send halts and leaves
\* the lock poisoned; a poisoned lock stays poisoned; once it is poisoned no
\* caller has a request in flight, and every caller that goes for the lock
\* halts with "Lock cannot be granted" or "Client lock failed", is_running
\* included, with nothing sent and the service untouched; and an apply that
\* ends while its scenario runs, by the scenario's panic, leaves the lock and
\* its poisoning as they were.
C19_FailedCreatePoisonsLock ==
    [][/\ \A t \in Threads :
            /\ (/\ pc[t] = "inflight"
                /\ cur[t].op = "with_latency"
                /\ pc'[t] # "inflight"
                /\ sent'[t][Len(sent'[t])].outcome = "failed")
               => /\ poisoned'
                  /\ Ends(t, IF outer[t].op = "none" THEN "with_latency" ELSE "apply")
                  /\ ret'[t].out = Panic("<proxies>.<toxics> creation has failed")
            /\ (poisoned /\ pc[t] = "waiting" /\ pc'[t] # "waiting")
               => /\ pc'[t] = "idle"
                  /\ ret'[t].out \in {Panic(ERR_LOCK), Panic(ERR_CLIENT_LOCK)}
                  /\ cur[t].op = "is_running" => ret'[t].out = Panic(ERR_CLIENT_LOCK)
                  /\ UNCHANGED <<server, lock, sent>>
            /\ (pc[t] = "scenario" /\ pc'[t] = "idle")
               => /\ ret'[t].out.tag = "Panic"
                  /\ UNCHANGED <<lock, poisoned>>
       /\ poisoned => poisoned'
       /\ poisoned' => \A t \in Threads : pc'[t] # "inflight" /\ lock' # t]_vars

\* with the lock poisoned by a with_latency on the caller's handle, is_running
\* has halted with "Client lock failed" and nothing sent
C19_Witness ==
    /\ poisoned
    /\ held["t1"].client = "Some"
    /\ Ended("t1", "is_running")
    /\ ret["t1"].out = Panic(ERR_CLIENT_LOCK)
    /\ sent["t1"] = <<>>
    /\ up

\* every request of the cleanup that caller t's apply or find_proxy has sent
\* is addressed under /proxies/{p}, p the proxy it cleans up
CleanupAddressedToProxy ==
    \A t \in Threads :
        LatestOp(t) \in {"apply", "find_proxy"} =>
            \A i \in 1..Len(sent[t]) :
                CleanupRequest(sent[t][i].req) =>
                    /\ sent[t][i].req.path[1] = "/proxies/"
                    /\ sent[t][i].req.path[2] = CleanupProxy(t)

\* C20: the cleanup of apply and of find_proxy on proxy p addresses every
\* request under /proxies/{p}; and the step in which one of its requests is
\* answered, or fails, leaves the service with the same proxies, every other
\* proxy as it was, and p's enabled flag, listen and upstream as they were.
C20_CleanupTouchesOnlyOwnToxics ==
    /\ []CleanupAddressedToProxy
    /\ [][\A t \in Threads :
            (/\ pc[t] = "inflight"
             /\ cur[t].op \in {"apply", "find_proxy"}
             /\ cur[t].phase \in {"toxics", "delete"}
             /\ sent'[t] # sent[t])
            => /\ DOMAIN server' = DOMAIN server
               /\ \A n \in DOMAIN server :
                     IF n = cur[t].self.name
                     THEN /\ server'[n].enabled = server[n].enabled
                          /\ server'[n].listen = server[n].listen
                          /\ server'[n].upstream = server[n].upstream
                     ELSE server'[n] = server[n]]_vars

\* find_proxy("socket") has sent a delete of its cleanup to a service that
\* holds the proxy db as well
C20_Witness ==
    /\ Ended("t1", "find_proxy")
    /\ ret["t1"].arg.name = "socket"
    /\ ret["t1"].out.tag = "Some"
    /\ Deletes("t1") # {}
    /\ DOMAIN server = {"socket", "db"}

====
